---- MODULE Spec2Model ----
(***************************************************************************)
(* Verity: a proof-of-work admission guard (Flameborn/verity).             *)
(*                                                                         *)
(* The model follows main.go's middleware chain                            *)
(*   RateLimitMiddleware -> APIKeyMiddleware -> handler                    *)
(* and the ChallengeManager (replay guard) with its sweep loop.            *)
(*                                                                         *)
(* Time: `now` counts minutes since the Unix epoch.  UnixSeconds and       *)
(* UnixMillis convert it the way time.Time.Unix() and                      *)
(* UnixNano()/int64(time.Millisecond) do.                                  *)
(*                                                                         *)
(* The code's functions are operators over explicit arguments.             *)
(* An action is one step of a request goroutine between two                *)
(* synchronisation points (a lock acquisition, a collaborator call, the    *)
(* response).  The specifications schedule them:                           *)
(*   Spec           two request goroutines, interleaved;                   *)
(*   SpecSeq        one request at a time, with what the request carried   *)
(*                  kept in `last`;                                        *)
(*   SpecLimit      GET / from one address, up to the real rate ceiling;   *)
(*   SpecWindow     LimitByIP alone, small ceilings and windows;           *)
(*   SpecComplexity getAdjustedComplexity alone, float64 arithmetic;       *)
(*   SpecIdle       one request of an address with earlier issuances;      *)
(*   SpecShutdown   main from the shutdown signal to the process's end;    *)
(*   SpecSweep      the replay guard's sweep under fairness;               *)
(*   SpecAddresses  the rate limiter with two addresses;                   *)
(*   SpecLocks      s.mutex and cm.mu, lock by lock, under fairness.       *)
(***************************************************************************)
EXTENDS Integers, Sequences, FiniteSets, TLC

(***************************************************************************)
(* Bounds of the model.                                                    *)
(***************************************************************************)
\* number of requests that may arrive in one behaviour
MaxRequests == 3
\* number of requests that may arrive in one behaviour of SpecSeq
MaxSeqRequests == 2
\* last minute the clock reaches in Spec and SpecSeq
MaxTime == 1
\* challenges the PoW collaborator constructs in one behaviour
MaxChallenges == 1
\* config.ExpireTime in minutes (the default is "5m"; any duration is legal)
ExpireTime == 1
\* last minute the clock reaches in SpecLimit (a window and a bit)
MaxLimitTime == 12
\* requests beyond the ceiling that SpecLimit lets arrive in one window
Overshoot == 2
\* SpecWindow: the largest ceiling, the longest window, the last minute of the clock
MaxLimit == 2
MaxWindow == 2
MaxWindowTime == 5

(***************************************************************************)
(* Program constants.                                                      *)
(***************************************************************************)
\* rateLimit.go: RequestLimitWindow = 10 * time.Minute
RequestLimitWindow == 10
\* rateLimit.go: MaxRequestsPerIP = 100
MaxRequestsPerIP == 100
\* part_000: DefaultComplexity = 50000
Complexity == 50000

Procs == {1, 2}
IPs == {"ip1", "ip2"}

(***************************************************************************)
(* Time conversions.                                                       *)
(***************************************************************************)
\* time.Time.Unix(): seconds since the epoch
UnixSeconds(t) == t * 60

\* time.Now().UnixNano() / int64(time.Millisecond): milliseconds since the epoch
UnixMillis(t) == t * 60 * 1000

(***************************************************************************)
(* Responses.  status is the HTTP status line, code and message the JSON   *)
(* body {code, message}.                                                   *)
(***************************************************************************)
NoResp == [status |-> 0, code |-> 0, message |-> ""]

\* server.go writeErrorResponse: WriteHeader(status), body code is the literal 400
writeErrorResponse(message, status) ==
    [status |-> status, code |-> 400, message |-> message]

\* chi middleware.Recoverer (main.go r.Use): a panic in a handler becomes a bare 500
Recoverer == [status |-> 500, code |-> 0, message |-> "panic"]

(***************************************************************************)
(* Rate limiter.                                                           *)
(***************************************************************************)
\* a Go map write: store[k] = v
MapPut(m, k, v) == [x \in DOMAIN m \cup {k} |-> IF x = k THEN v ELSE m[x]]

\* a Go delete of several keys
MapRemove(m, ks) == [x \in DOMAIN m \ ks |-> m[x]]

EmptyMap == [x \in {} |-> 0]

\* mutant of LimitByIP: the ceiling test is off by one (> instead of >=)
LimitByIP_OffByOne(ip, limit, window, store, t) ==
    LET s1 == IF ip \in DOMAIN store THEN store
              ELSE MapPut(store, ip, [Count |-> 0, ResetAt |-> t + window])
        s2 == IF t > s1[ip].ResetAt
              THEN MapPut(s1, ip, [Count |-> 0, ResetAt |-> t + window])
              ELSE s1
    IN  IF s2[ip].Count > limit
        THEN [allowed |-> FALSE, store |-> s2]
        ELSE [allowed |-> TRUE,
              store |-> MapPut(s2, ip, [Count |-> s2[ip].Count + 1,
                                        ResetAt |-> s2[ip].ResetAt])]

\* mutant of LimitByIP: a reset clears the count but keeps the old window boundary
LimitByIP_StaleWindow(ip, limit, window, store, t) ==
    LET s1 == IF ip \in DOMAIN store THEN store
              ELSE MapPut(store, ip, [Count |-> 0, ResetAt |-> t + window])
        s2 == IF t > s1[ip].ResetAt
              THEN MapPut(s1, ip, [Count |-> 0, ResetAt |-> s1[ip].ResetAt])
              ELSE s1
    IN  IF s2[ip].Count >= limit
        THEN [allowed |-> FALSE, store |-> s2]
        ELSE [allowed |-> TRUE,
              store |-> MapPut(s2, ip, [Count |-> s2[ip].Count + 1,
                                        ResetAt |-> s2[ip].ResetAt])]

\* mutant of LimitByIP: a rejected request is counted as well
LimitByIP_CountsRejected(ip, limit, window, store, t) ==
    LET s1 == IF ip \in DOMAIN store THEN store
              ELSE MapPut(store, ip, [Count |-> 0, ResetAt |-> t + window])
        s2 == IF t > s1[ip].ResetAt
              THEN MapPut(s1, ip, [Count |-> 0, ResetAt |-> t + window])
              ELSE s1
    IN  [allowed |-> s2[ip].Count < limit,
         store |-> MapPut(s2, ip, [Count |-> s2[ip].Count + 1,
                                   ResetAt |-> s2[ip].ResetAt])]

\* mutant of LimitByIP: the ceiling is applied to the requests of all addresses
LimitByIP_SharedCount(ip, limit, window, store, t) ==
    LET s1 == IF ip \in DOMAIN store THEN store
              ELSE MapPut(store, ip, [Count |-> 0, ResetAt |-> t + window])
        s2 == IF t > s1[ip].ResetAt
              THEN MapPut(s1, ip, [Count |-> 0, ResetAt |-> t + window])
              ELSE s1
    IN  IF \E x \in DOMAIN s2 : s2[x].Count >= limit
        THEN [allowed |-> FALSE, store |-> s2]
        ELSE [allowed |-> TRUE,
              store |-> MapPut(s2, ip, [Count |-> s2[ip].Count + 1,
                                        ResetAt |-> s2[ip].ResetAt])]

\* utils.go LimitByIP; t is time.Now()
LimitByIP(ip, limit, window, store, t) ==
    LET s1 == IF ip \in DOMAIN store THEN store
              ELSE MapPut(store, ip, [Count |-> 0, ResetAt |-> t + window])
        s2 == IF t > s1[ip].ResetAt
              THEN MapPut(s1, ip, [Count |-> 0, ResetAt |-> t + window])
              ELSE s1
    IN  IF s2[ip].Count >= limit
        THEN [allowed |-> FALSE, store |-> s2]
        ELSE [allowed |-> TRUE,
              store |-> MapPut(s2, ip, [Count |-> s2[ip].Count + 1,
                                        ResetAt |-> s2[ip].ResetAt])]

\* rateLimit.go RateLimitMiddleware: the decision and the store after it
RateLimitMiddleware(ip, store, t) ==
    LET r == LimitByIP(ip, MaxRequestsPerIP, RequestLimitWindow, store, t)
    IN  [next |-> r.allowed,
         store |-> r.store,
         resp |-> IF r.allowed THEN NoResp
                  ELSE writeErrorResponse("Rate limit exceeded", 429)]

(***************************************************************************)
(* Admission gate.  An API key is <<prefix, rest>>: the string prefix+rest.*)
(***************************************************************************)
NoKey == <<"", "">>
KeyA == <<"vrty_", "a">>
KeyB == <<"vrty_", "b">>
ApiKeyInputs == {NoKey, <<"key_", "a">>, <<"vrty_", "zz">>, KeyA, KeyB}

\* strings.HasPrefix(apiKey, "vrty_")
HasPrefix(apiKey) == apiKey[1] = "vrty_"

\* config.APIKeys: credential -> allowed origins
APIKeys == [k \in {KeyA, KeyB} |->
              IF k = KeyA THEN <<"https://a.example">>
              ELSE <<"https://b.example", "*">>]

OriginInputs == {"", "https://a.example", "https://evil.example"}

\* mutant of OriginAllowed: the `origin != ""` guard is missing
OriginAllowed_NoEmptyCheck(origin, allowedOrigins) ==
    \E i \in 1..Len(allowedOrigins) :
        origin = allowedOrigins[i] \/ allowedOrigins[i] = "*"

\* rateLimit.go APIKeyMiddleware, the origin loop (lines 61-71)
OriginAllowed(origin, allowedOrigins) ==
    /\ origin # ""
    /\ \E i \in 1..Len(allowedOrigins) :
          origin = allowedOrigins[i] \/ allowedOrigins[i] = "*"

\* mutant of APIKeyMiddleware: the origin is checked before the key is looked up
APIKeyMiddleware_OriginFirst(apiKey, origin) ==
    IF apiKey = NoKey
    THEN [next |-> FALSE, resp |-> writeErrorResponse("Missing API key", 401)]
    ELSE IF ~HasPrefix(apiKey)
    THEN [next |-> FALSE, resp |-> writeErrorResponse("Invalid API key format", 401)]
    ELSE IF origin = ""
    THEN [next |-> FALSE, resp |-> writeErrorResponse("Invalid origin", 403)]
    ELSE IF apiKey \notin DOMAIN APIKeys
    THEN [next |-> FALSE, resp |-> writeErrorResponse("Invalid API key", 401)]
    ELSE IF ~OriginAllowed(origin, APIKeys[apiKey])
    THEN [next |-> FALSE, resp |-> writeErrorResponse("Invalid origin", 403)]
    ELSE [next |-> TRUE, resp |-> NoResp]

\* rateLimit.go APIKeyMiddleware
APIKeyMiddleware(apiKey, origin) ==
    IF apiKey = NoKey
    THEN [next |-> FALSE, resp |-> writeErrorResponse("Missing API key", 401)]
    ELSE IF ~HasPrefix(apiKey)
    THEN [next |-> FALSE, resp |-> writeErrorResponse("Invalid API key format", 401)]
    ELSE IF apiKey \notin DOMAIN APIKeys
    THEN [next |-> FALSE, resp |-> writeErrorResponse("Invalid API key", 401)]
    ELSE IF ~OriginAllowed(origin, APIKeys[apiKey])
    THEN [next |-> FALSE, resp |-> writeErrorResponse("Invalid origin", 403)]
    ELSE [next |-> TRUE, resp |-> NoResp]

(***************************************************************************)
(* Verification payload.  The body is base64(JSON{challenge, salt, ...});  *)
(* a body is described by what each decoding step of the handler finds.    *)
(* sol is what the PoW collaborator makes of the payload: "good" a correct *)
(* solution of a challenge it signed, "bad" anything else it can decode,   *)
(* "err" a payload it cannot decode.                                       *)
(***************************************************************************)
Body(b64, json, hasChallenge, hasSalt, hasQuery, expiresInt, challenge, expires, sol) ==
    [b64 |-> b64, json |-> json, hasChallenge |-> hasChallenge, hasSalt |-> hasSalt,
     hasQuery |-> hasQuery, expiresInt |-> expiresInt,
     challenge |-> challenge, expires |-> expires, sol |-> sol]

NoBody == Body(FALSE, FALSE, FALSE, FALSE, FALSE, FALSE, 0, 0, "bad")

MalformedBodies ==
    { NoBody,
      Body(TRUE, FALSE, FALSE, FALSE, FALSE, FALSE, 0, 0, "bad"),
      Body(TRUE, TRUE, FALSE, FALSE, FALSE, FALSE, 0, 0, "bad"),
      Body(TRUE, TRUE, TRUE, FALSE, FALSE, FALSE, 1, 0, "bad"),
      Body(TRUE, TRUE, TRUE, TRUE, FALSE, FALSE, 1, 0, "bad"),
      Body(TRUE, TRUE, TRUE, TRUE, TRUE, FALSE, 1, 0, "bad"),
      Body(TRUE, TRUE, TRUE, TRUE, TRUE, TRUE, 1, 0, "bad") }

WellFormed(challenge, expires, sol) ==
    Body(TRUE, TRUE, TRUE, TRUE, TRUE, TRUE, challenge, expires, sol)

\* the bodies a client can send: a correct solution only of a challenge it was handed
\* (the HMAC signature cannot be forged), with the salt as issued
Bodies(handedOut) ==
    MalformedBodies
    \cup { WellFormed(c, handedOut[c].expires, "good") : c \in DOMAIN handedOut }
    \cup { WellFormed(c, e, s) : c \in 1..MaxChallenges,
                                 e \in {UnixSeconds(ExpireTime)}, s \in {"bad", "err"} }

\* mutant of ParsePayload: the unchecked type assertion on salt is treated as a 400
ParsePayload_SaltChecked(body) ==
    IF ~body.b64
    THEN [next |-> FALSE, resp |-> writeErrorResponse("Invalid base64 encoding", 400)]
    ELSE IF ~body.json
    THEN [next |-> FALSE, resp |-> writeErrorResponse("Invalid JSON payload", 400)]
    ELSE IF ~body.hasChallenge \/ ~body.hasSalt \/ ~body.hasQuery
    THEN [next |-> FALSE, resp |-> writeErrorResponse("Invalid challenge format", 400)]
    ELSE IF ~body.expiresInt \/ body.expires < 1
    THEN [next |-> FALSE, resp |-> writeErrorResponse("Invalid challenge format", 400)]
    ELSE [next |-> TRUE, resp |-> NoResp]

\* routes.go handleVerifyChallenge lines 150-189: the payload checks, in order
ParsePayload(body) ==
    IF ~body.b64
    THEN [next |-> FALSE, resp |-> writeErrorResponse("Invalid base64 encoding", 400)]
    ELSE IF ~body.json
    THEN [next |-> FALSE, resp |-> writeErrorResponse("Invalid JSON payload", 400)]
    ELSE IF ~body.hasChallenge
    THEN [next |-> FALSE, resp |-> writeErrorResponse("Invalid challenge format", 400)]
    ELSE IF ~body.hasSalt
    THEN [next |-> FALSE, resp |-> Recoverer]
    ELSE IF ~body.hasQuery
    THEN [next |-> FALSE, resp |-> writeErrorResponse("Invalid challenge format", 400)]
    ELSE IF ~body.expiresInt \/ body.expires < 1
    THEN [next |-> FALSE, resp |-> writeErrorResponse("Invalid challenge format", 400)]
    ELSE [next |-> TRUE, resp |-> NoResp]

(***************************************************************************)
(* Replay guard (ChallengeManager).                                        *)
(***************************************************************************)
\* challengeManager.go Exists
Exists(solved, challenge) == challenge \in DOMAIN solved

\* challengeManager.go AddChallenge
AddChallenge(solved, challenge, expireAt) == MapPut(solved, challenge, expireAt)

\* mutant of cleanupExpired: the sweep removes nothing
cleanupExpired_KeepsAll(solved, t) == solved

\* challengeManager.go cleanupExpired; t is time.Now()
cleanupExpired(solved, t) ==
    MapRemove(solved, {c \in DOMAIN solved : solved[c] < UnixMillis(t)})

(***************************************************************************)
(* PoW collaborator (altcha-lib-go).                                       *)
(***************************************************************************)
\* altcha.CreateChallenge: the salt carries expires as Unix seconds
CreateChallenge(id, maxNumber, expires) ==
    [id |-> id, maxNumber |-> maxNumber, expires |-> UnixSeconds(expires)]

\* altcha.VerifySolution(payload, hmacKey, checkExpires = true); t is time.Now()
VerifySolution(body, t) ==
    IF body.sol = "err" THEN "error"
    ELSE IF body.sol = "good" /\ ~(UnixSeconds(t) > body.expires) THEN "verified"
    ELSE "rejected"

(***************************************************************************)
(* float64 arithmetic (IEEE-754 binary64, round to nearest, ties to even). *)
(* A natural number of any size is a sequence of limbs, least significant  *)
(* first, in base 2^10; a positive double is [m, e], 2^52 <= m < 2^53,     *)
(* standing for m * 2^e.                                                   *)
(***************************************************************************)
LimbBase == 2^10

RECURSIVE BigFromInt(_)
BigFromInt(n) == IF n = 0 THEN <<>> ELSE <<n % LimbBase>> \o BigFromInt(n \div LimbBase)

RECURSIVE BigToInt(_)
BigToInt(a) == IF a = <<>> THEN 0 ELSE a[1] + LimbBase * BigToInt(Tail(a))

RECURSIVE BigNorm(_)
BigNorm(a) ==
    IF a # <<>> /\ a[Len(a)] = 0 THEN BigNorm(SubSeq(a, 1, Len(a) - 1)) ELSE a

\* a * n for a machine integer n < 2^20
RECURSIVE BigMulCarry(_, _, _, _)
BigMulCarry(a, n, i, carry) ==
    IF i > Len(a) THEN BigFromInt(carry)
    ELSE LET v == a[i] * n + carry
         IN  <<v % LimbBase>> \o BigMulCarry(a, n, i + 1, v \div LimbBase)

BigMulSmall(a, n) == BigNorm(BigMulCarry(a, n, 1, 0))

RECURSIVE BigAddCarry(_, _, _, _)
BigAddCarry(a, b, i, carry) ==
    IF i > Len(a) /\ i > Len(b) THEN BigFromInt(carry)
    ELSE LET v == (IF i <= Len(a) THEN a[i] ELSE 0)
                  + (IF i <= Len(b) THEN b[i] ELSE 0) + carry
         IN  <<v % LimbBase>> \o BigAddCarry(a, b, i + 1, v \div LimbBase)

BigAdd(a, b) == BigNorm(BigAddCarry(a, b, 1, 0))

\* quotient and remainder of a by a machine integer d <= 2^20, from the top limb down
RECURSIVE BigDivFrom(_, _, _, _)
BigDivFrom(a, d, i, rem) ==
    IF i = 0 THEN [q |-> <<>>, r |-> rem]
    ELSE LET cur == rem * LimbBase + a[i]
             lower == BigDivFrom(a, d, i - 1, cur % d)
         IN  [q |-> Append(lower.q, cur \div d), r |-> lower.r]

BigDivSmall(a, d) ==
    LET x == BigDivFrom(a, d, Len(a), 0) IN [q |-> BigNorm(x.q), r |-> x.r]

RECURSIVE BitLen(_)
BitLen(n) == IF n = 0 THEN 0 ELSE 1 + BitLen(n \div 2)

BigBitLen(a) == IF a = <<>> THEN 0 ELSE 10 * (Len(a) - 1) + BitLen(a[Len(a)])

RECURSIVE BigShl(_, _)
BigShl(a, s) ==
    IF s = 0 \/ a = <<>> THEN a
    ELSE IF s >= 10 THEN BigShl(<<0>> \o a, s - 10)
    ELSE BigMulSmall(a, 2^s)

RECURSIVE BigShr(_, _)
BigShr(a, s) ==
    IF s = 0 \/ a = <<>> THEN a
    ELSE IF s >= 10 THEN BigShr(Tail(a), s - 10)
    ELSE BigDivSmall(a, 2^s).q

\* the double nearest to n * 2^e (n > 0 with at most 73 bits)
FRound(n, e) ==
    LET len == BigBitLen(n)
    IN  IF len <= 53
        THEN [m |-> BigShl(n, 53 - len), e |-> e - (53 - len)]
        ELSE LET d == len - 53
                 x == BigDivSmall(n, 2^d)
                 odd == x.q[1] % 2 = 1
                 up == 2 * x.r > 2^d \/ (2 * x.r = 2^d /\ odd)
                 q == IF up THEN BigAdd(x.q, <<1>>) ELSE x.q
             IN  IF BigBitLen(q) = 54
                 THEN [m |-> BigDivSmall(q, 2).q, e |-> e + d + 1]
                 ELSE [m |-> q, e |-> e + d]

\* the constant 0.1: the double nearest to 1/10, 0x1.999999999999Ap-4
Tenth ==
    LET x == BigDivSmall(BigShl(<<1>>, 56), 10)
    IN  [m |-> IF 2 * x.r > 10 THEN BigAdd(x.q, <<1>>) ELSE x.q, e |-> 0 - 56]

\* float64(n) * x for an integer 0 < n < 2^20 (float64(n) is exact)
FMulInt(x, n) == FRound(BigMulSmall(x.m, n), x.e)

\* 1.0 + y for a double 0 < y with y.e <= 0
FAddOne(y) == FRound(BigAdd(BigShl(<<1>>, 0 - y.e), y.m), y.e)

\* 1.0 + float64(n) * x as one fused multiply-add: a single rounding
FMulAddOne(x, n) == FRound(BigAdd(BigShl(<<1>>, 0 - x.e), BigMulSmall(x.m, n)), x.e)

\* int64(x): truncation toward zero
FTrunc(x) ==
    IF x.e >= 0 THEN BigToInt(BigShl(x.m, x.e)) ELSE BigToInt(BigShr(x.m, 0 - x.e))

(***************************************************************************)
(* Complexity controller.                                                  *)
(***************************************************************************)
\* mutant of ScaledComplexity: the factor is 1 + count \div 10 tenths of a tenth
ScaledComplexity_Integer(complexity, count, fma) ==
    (complexity * (10 + (count \div 10))) \div 10

\* server.go lines 104-105: factor := 1.0 + float64(count/10)*0.1;
\* int64(float64(complexity) * factor).  Go may fuse x*y + z into one operation
\* (fma) on the architectures that have the instruction.
ScaledComplexity(complexity, count, fma) ==
    LET factor == IF fma THEN FMulAddOne(Tenth, count \div 10)
                  ELSE FAddOne(FMulInt(Tenth, count \div 10))
    IN  FTrunc(FMulInt(factor, complexity))

\* mutant of getAdjustedComplexity: the idle reset is missing
getAdjustedComplexity_NoReset(ip, counts, lastReq, t, complexity, fma) ==
    LET exists == ip \in DOMAIN counts
        count == IF exists THEN counts[ip] ELSE 0
    IN  [counts |-> MapPut(counts, ip, count + 1),
         lastReq |-> MapPut(lastReq, ip, t),
         complexity |-> IF exists /\ count > 10
                        THEN ScaledComplexity(complexity, count, fma)
                        ELSE complexity]

\* server.go getAdjustedComplexity; t is time.Now() in minutes, complexity is
\* s.config.Complexity
getAdjustedComplexity(ip, counts, lastReq, t, complexity, fma) ==
    LET exists == ip \in DOMAIN counts
        timeExists == ip \in DOMAIN lastReq
        count0 == IF exists THEN counts[ip] ELSE 0
        count == IF timeExists /\ t - lastReq[ip] > 5 THEN 0 ELSE count0
    IN  [counts |-> MapPut(counts, ip, count + 1),
         lastReq |-> MapPut(lastReq, ip, t),
         complexity |-> IF exists /\ count > 10
                        THEN ScaledComplexity(complexity, count, fma)
                        ELSE complexity]

(***************************************************************************)
(* Stats aggregator.                                                       *)
(***************************************************************************)
ZeroStats == [TotalChallenges |-> 0, SolvedChallenges |-> 0, FailedChallenges |-> 0,
              IPThrottleCount |-> EmptyMap]

\* mutant of StatsIssued: the entry is built anew, the outcome counters start over
StatsIssued_ResetsOutcomes(st, apiKey, ip) ==
    [st EXCEPT ![apiKey] =
        [TotalChallenges |-> @.TotalChallenges + 1,
         SolvedChallenges |-> 0,
         FailedChallenges |-> 0,
         IPThrottleCount |->
             MapPut(@.IPThrottleCount, ip,
                    IF ip \in DOMAIN @.IPThrottleCount THEN @.IPThrottleCount[ip] + 1
                    ELSE 1)]]

\* mutant of StatsIssued: the issuance is counted under every credential
StatsIssued_AllCredentials(st, apiKey, ip) ==
    [k \in DOMAIN st |->
        [st[k] EXCEPT !.TotalChallenges = @ + 1,
                      !.IPThrottleCount =
                          IF k = apiKey
                          THEN MapPut(@, ip, IF ip \in DOMAIN @ THEN @[ip] + 1 ELSE 1)
                          ELSE @]]

\* routes.go handleGetChallenge lines 126-136
StatsIssued(st, apiKey, ip) ==
    [st EXCEPT ![apiKey] =
        [@ EXCEPT !.TotalChallenges = @ + 1,
                  !.IPThrottleCount =
                      MapPut(@, ip, IF ip \in DOMAIN @ THEN @[ip] + 1 ELSE 1)]]

\* routes.go handleVerifyChallenge lines 211-213
StatsSolved(st, apiKey) == [st EXCEPT ![apiKey].SolvedChallenges = @ + 1]

\* routes.go handleVerifyChallenge lines 219-221
StatsFailed(st, apiKey) == [st EXCEPT ![apiKey].FailedChallenges = @ + 1]

\* routes.go handleVerifyChallenge lines 207-226: the body written; no WriteHeader
VerifyResponse(verified) ==
    IF verified THEN [status |-> 200, code |-> 200, message |-> "OK"]
    ELSE [status |-> 200, code |-> 400, message |-> "Invalid payload"]

\* mutant of VerifyCommit: a failed verification is recorded in the replay guard too
VerifyCommit_RecordsFailures(verified, solved, st, apiKey, body) ==
    [solved |-> AddChallenge(solved, body.challenge, body.expires),
     stats |-> IF verified THEN StatsSolved(st, apiKey) ELSE StatsFailed(st, apiKey),
     resp |-> VerifyResponse(verified)]

\* routes.go handleVerifyChallenge lines 209-226: what happens under s.mutex
VerifyCommit(verified, solved, st, apiKey, body) ==
    IF verified
    THEN [solved |-> AddChallenge(solved, body.challenge, body.expires),
          stats |-> StatsSolved(st, apiKey),
          resp |-> VerifyResponse(TRUE)]
    ELSE [solved |-> solved,
          stats |-> StatsFailed(st, apiKey),
          resp |-> VerifyResponse(FALSE)]

(***************************************************************************)
(* State.                                                                  *)
(***************************************************************************)
VARIABLES
    now,              \* the clock, minutes
    cm,               \* main.go: the global cm is set (non-nil)
    solvedChallenges, \* ChallengeManager.solvedChallenges: challenge -> expireAt
    lastTick,         \* the time of the sweep ticker's last delivered tick
    ipLimits,         \* RateLimiter.ipLimits: ip -> [Count, ResetAt]
    ipRequestCount,   \* Server.ipRequestCount
    ipLastRequest,    \* Server.ipLastRequest
    stats,            \* Server.config.Stats: apiKey -> StatsEntry
    mutex,            \* Server.mutex: [writer, readers]
    handedOut,        \* challenges written to a client: id -> challenge
    nextId,           \* the next challenge the collaborator constructs
    pc,               \* where each request goroutine stands
    req,              \* the request a goroutine is serving (resubmit: history, the
                      \* payload had been answered {200, "OK"} when it was read)
    resp,             \* the response the latest request step wrote (NoResp: none)
    started,          \* requests that have arrived
    verifiedIds,      \* history: challenges VerifySolution reported verified
    acceptedIds,      \* history: challenges answered {200, "OK"}
    last,             \* SpecSeq, SpecLimit: what the current (or latest) request carried
    params,           \* SpecWindow: the limit and window LimitByIP is called with
    admittedAt,       \* SpecWindow: minute -> requests LimitByIP admitted in it
    config,           \* Server.config: [Complexity]
    mainPc,           \* where main's goroutine stands after the server has started
    persisted,        \* what SaveConfig has left in verity.yaml since the signal
    cmMu              \* ChallengeManager.mu: the goroutine holding it (0: free)

vars == <<now, cm, solvedChallenges, lastTick, ipLimits, ipRequestCount, ipLastRequest,
          stats, mutex, handedOut, nextId, pc, req, resp, started, verifiedIds,
          acceptedIds, last, params, admittedAt, config, mainPc, persisted, cmMu>>

(***************************************************************************)
(* Initial state: main.go has loaded the config, built the server and the  *)
(* rate limiter and started ListenAndServe in its goroutine; cm is not yet *)
(* assigned.                                                               *)
(***************************************************************************)
IdleReq == [kind |-> "", ip |-> "", apiKey |-> NoKey, body |-> NoBody,
            expires |-> 0, maxNumber |-> 0, challenge |-> 0, verdict |-> "",
            resubmit |-> FALSE]

\* stage: the step the request has reached.  SpecLimit: seen counts the requests that
\* arrived in the address's current window, which ends at boundary
NoLast == [kind |-> "", ip |-> "", apiKey |-> NoKey, origin |-> "", body |-> NoBody,
           verdict |-> "", stage |-> "", seen |-> 0, boundary |-> 0,
           count |-> 0, complexity |-> 0]

\* part_000 LoadConfig: the complexity of the configuration file (default 50000)
ServerConfig == [Complexity |-> Complexity]

InitFrom(limits, ps, cfg, counts, lastReq) ==
    /\ now = 0
    /\ cm = FALSE
    /\ solvedChallenges = EmptyMap
    /\ lastTick = 0
    /\ ipLimits = limits
    /\ ipRequestCount = counts
    /\ ipLastRequest = lastReq
    /\ stats = [k \in DOMAIN APIKeys |-> ZeroStats]
    /\ mutex = [writer |-> 0, readers |-> {}]
    /\ handedOut = EmptyMap
    /\ nextId = 1
    /\ pc = [p \in Procs |-> "idle"]
    /\ req = [p \in Procs |-> IdleReq]
    /\ resp = NoResp
    /\ started = 0
    /\ verifiedIds = {}
    /\ acceptedIds = {}
    /\ last = NoLast
    /\ params = ps
    /\ admittedAt = [t \in 0..MaxWindowTime |-> 0]
    /\ config = cfg
    /\ mainPc = "serving"
    /\ persisted = "none"
    /\ cmMu = 0

InitWith(limits, ps) == InitFrom(limits, ps, ServerConfig, EmptyMap, EmptyMap)

\* rateLimit.go: the ceiling and the window RateLimitMiddleware passes to LimitByIP
ServerParams == [limit |-> MaxRequestsPerIP, window |-> RequestLimitWindow]

Init == InitWith(EmptyMap, ServerParams)

(***************************************************************************)
(* Server.mutex (sync.RWMutex).                                            *)
(***************************************************************************)
CanLock == mutex.writer = 0 /\ mutex.readers = {}
CanRLock == mutex.writer = 0

(***************************************************************************)
(* Environment: the clock, main's goroutine, the sweep ticker.             *)
(***************************************************************************)
Tick(limit) ==
    /\ now < limit
    /\ now' = now + 1
    /\ UNCHANGED <<cm, solvedChallenges, lastTick, ipLimits, ipRequestCount,
                   ipLastRequest, stats, mutex, handedOut, nextId, pc, req, resp,
                   verifiedIds, acceptedIds>>

\* main.go line 80: cm = NewChallengeManager(...); the ticker starts now
NewChallengeManager ==
    /\ ~cm
    /\ cm' = TRUE
    /\ lastTick' = now
    /\ UNCHANGED <<now, solvedChallenges, ipLimits, ipRequestCount, ipLastRequest,
                   stats, mutex, handedOut, nextId, pc, req, resp, verifiedIds,
                   acceptedIds>>

\* challengeManager.go cleanupLoop: one tick of the ticker, every expireDuration
cleanupLoop ==
    /\ cm
    /\ now >= lastTick + ExpireTime
    /\ lastTick' = lastTick + ExpireTime
    /\ solvedChallenges' = cleanupExpired(solvedChallenges, now)
    /\ UNCHANGED <<now, cm, ipLimits, ipRequestCount, ipLastRequest, stats, mutex,
                   handedOut, nextId, pc, req, resp, verifiedIds, acceptedIds>>

(***************************************************************************)
(* Request goroutines, step by step.  The parameters after p are what the  *)
(* step reads of the request (or gets back from the collaborator).         *)
(***************************************************************************)
\* the goroutine ends: the response is on the wire
Finish(p, r) ==
    /\ pc' = [pc EXCEPT ![p] = "idle"]
    /\ req' = [req EXCEPT ![p] = IdleReq]
    /\ resp' = r

\* the goroutine goes on to the next step of the chain
Goto(p, label) ==
    /\ pc' = [pc EXCEPT ![p] = label]
    /\ resp' = NoResp

\* net/http runs the chain in a new goroutine; rateLimit.go RateLimitMiddleware
\* comes first (rl.mutex held around LimitByIP).  Goroutines are interchangeable:
\* the lowest idle one takes the request.
RateLimitStep(p, kind, ip) ==
    /\ pc[p] = "idle"
    /\ \A q \in Procs : q < p => pc[q] # "idle"
    /\ LET r == RateLimitMiddleware(ip, ipLimits, now)
       IN  /\ ipLimits' = r.store
           /\ IF r.next
              THEN /\ Goto(p, IF kind = "root" THEN "root" ELSE "gate")
                   /\ req' = [req EXCEPT ![p] = [IdleReq EXCEPT !.kind = kind,
                                                                !.ip = ip]]
              ELSE Finish(p, r.resp)
    /\ UNCHANGED <<now, cm, solvedChallenges, lastTick, ipRequestCount, ipLastRequest,
                   stats, mutex, handedOut, nextId, verifiedIds, acceptedIds>>

\* rateLimit.go APIKeyMiddleware (s.mutex read-locked around the registry lookup)
APIKeyStep(p, apiKey, origin) ==
    /\ pc[p] = "gate"
    /\ CanRLock
    /\ LET g == APIKeyMiddleware(apiKey, origin)
       IN  IF g.next
           THEN /\ Goto(p, req[p].kind)
                /\ req' = [req EXCEPT ![p].apiKey = apiKey]
           ELSE Finish(p, g.resp)
    /\ UNCHANGED <<now, cm, solvedChallenges, lastTick, ipLimits, ipRequestCount,
                   ipLastRequest, stats, mutex, handedOut, nextId, verifiedIds,
                   acceptedIds>>

\* routes.go handleRoot line 19: s.mutex.RLock()
RootRLock(p) ==
    /\ pc[p] = "root"
    /\ CanRLock
    /\ mutex' = [mutex EXCEPT !.readers = @ \cup {p}]
    /\ Goto(p, "root_write")
    /\ UNCHANGED <<now, cm, solvedChallenges, lastTick, ipLimits, ipRequestCount,
                   ipLastRequest, stats, handedOut, nextId, req, verifiedIds,
                   acceptedIds>>

\* routes.go handleRoot lines 22-89: the page is written, then the deferred RUnlock
RootWrite(p) ==
    /\ pc[p] = "root_write"
    /\ mutex' = [mutex EXCEPT !.readers = @ \ {p}]
    /\ Finish(p, [status |-> 200, code |-> 0, message |-> "html"])
    /\ UNCHANGED <<now, cm, solvedChallenges, lastTick, ipLimits, ipRequestCount,
                   ipLastRequest, stats, handedOut, nextId, verifiedIds, acceptedIds>>

\* routes.go handleGetChallenge lines 100-110: expires, then getAdjustedComplexity
\* under s.mutex.Lock()
GetComplexity(p, fma) ==
    /\ pc[p] = "get"
    /\ CanLock
    /\ LET c == getAdjustedComplexity(req[p].ip, ipRequestCount, ipLastRequest, now,
                                      config.Complexity, fma)
       IN  /\ ipRequestCount' = c.counts
           /\ ipLastRequest' = c.lastReq
           /\ req' = [req EXCEPT ![p].expires = now + ExpireTime,
                                 ![p].maxNumber = c.complexity]
    /\ Goto(p, "create")
    /\ UNCHANGED <<now, cm, solvedChallenges, lastTick, ipLimits, stats, mutex,
                   handedOut, nextId, verifiedIds, acceptedIds>>

\* mutant of GetCreate: a failed creation is counted as an issued challenge
GetCreate_CountsFailure(p, ok) ==
    /\ pc[p] = "create"
    /\ IF ok
       THEN /\ nextId <= MaxChallenges
            /\ nextId' = nextId + 1
            /\ req' = [req EXCEPT ![p].challenge = nextId]
            /\ Goto(p, "issued")
            /\ UNCHANGED stats
       ELSE /\ Finish(p, writeErrorResponse("Failed to create challenge", 500))
            /\ stats' = StatsIssued(stats, req[p].apiKey, req[p].ip)
            /\ UNCHANGED nextId
    /\ UNCHANGED <<now, cm, solvedChallenges, lastTick, ipLimits, ipRequestCount,
                   ipLastRequest, mutex, handedOut, verifiedIds, acceptedIds>>

\* routes.go handleGetChallenge lines 112-124: altcha.CreateChallenge returns a
\* challenge (ok) or an error
GetCreate(p, ok) ==
    /\ pc[p] = "create"
    /\ IF ok
       THEN /\ nextId <= MaxChallenges
            /\ nextId' = nextId + 1
            /\ req' = [req EXCEPT ![p].challenge = nextId]
            /\ Goto(p, "issued")
       ELSE /\ Finish(p, writeErrorResponse("Failed to create challenge", 500))
            /\ UNCHANGED nextId
    /\ UNCHANGED <<now, cm, solvedChallenges, lastTick, ipLimits, ipRequestCount,
                   ipLastRequest, stats, mutex, handedOut, verifiedIds, acceptedIds>>

\* routes.go handleGetChallenge lines 126-139: stats under s.mutex.Lock(), then the
\* challenge is written to the client
GetIssue(p) ==
    /\ pc[p] = "issued"
    /\ CanLock
    /\ stats' = StatsIssued(stats, req[p].apiKey, req[p].ip)
    /\ handedOut' = MapPut(handedOut, req[p].challenge,
                           CreateChallenge(req[p].challenge, req[p].maxNumber,
                                           req[p].expires))
    /\ Finish(p, [status |-> 200, code |-> 0, message |-> "challenge"])
    /\ UNCHANGED <<now, cm, solvedChallenges, lastTick, ipLimits, ipRequestCount,
                   ipLastRequest, mutex, nextId, verifiedIds, acceptedIds>>

\* routes.go handleVerifyChallenge lines 150-195: the payload checks, then cm.Exists
\* (a nil cm panics in cm.mu.Lock(); the Recoverer answers 500)
VerifyParse(p, body) ==
    /\ pc[p] = "verify"
    /\ body \in Bodies(handedOut)
    /\ LET parsed == ParsePayload(body)
       IN  IF ~parsed.next THEN Finish(p, parsed.resp)
           ELSE IF ~cm THEN Finish(p, Recoverer)
           ELSE IF Exists(solvedChallenges, body.challenge)
           THEN Finish(p, writeErrorResponse("Challenge already solved", 409))
           ELSE /\ Goto(p, "collab")
                /\ req' = [req EXCEPT ![p].body = body,
                                      ![p].resubmit = body.sol = "good"
                                          /\ body.challenge \in acceptedIds]
    /\ UNCHANGED <<now, cm, solvedChallenges, lastTick, ipLimits, ipRequestCount,
                   ipLastRequest, stats, mutex, handedOut, nextId, verifiedIds,
                   acceptedIds>>

\* routes.go handleVerifyChallenge lines 197-202: altcha.VerifySolution returns v;
\* no lock is held
VerifyCollab(p, v) ==
    /\ pc[p] = "collab"
    /\ v = VerifySolution(req[p].body, now)
    /\ IF v = "error"
       THEN Finish(p, writeErrorResponse("Verification error", 500))
       ELSE /\ Goto(p, "lock")
            /\ req' = [req EXCEPT ![p].verdict = v]
    /\ verifiedIds' = IF v = "verified" THEN verifiedIds \cup {req[p].body.challenge}
                      ELSE verifiedIds
    /\ UNCHANGED <<now, cm, solvedChallenges, lastTick, ipLimits, ipRequestCount,
                   ipLastRequest, stats, mutex, handedOut, nextId, acceptedIds>>

\* routes.go handleVerifyChallenge line 204: s.mutex.Lock()
VerifyLock(p) ==
    /\ pc[p] = "lock"
    /\ CanLock
    /\ mutex' = [mutex EXCEPT !.writer = p]
    /\ Goto(p, "commit")
    /\ UNCHANGED <<now, cm, solvedChallenges, lastTick, ipLimits, ipRequestCount,
                   ipLastRequest, stats, handedOut, nextId, req, verifiedIds,
                   acceptedIds>>

\* routes.go handleVerifyChallenge lines 207-228: record, count, write the response,
\* then the deferred Unlock
VerifyWrite(p) ==
    /\ pc[p] = "commit"
    /\ LET c == VerifyCommit(req[p].verdict = "verified", solvedChallenges, stats,
                             req[p].apiKey, req[p].body)
       IN  /\ solvedChallenges' = c.solved
           /\ stats' = c.stats
           /\ Finish(p, c.resp)
    /\ acceptedIds' = IF req[p].verdict = "verified"
                      THEN acceptedIds \cup {req[p].body.challenge}
                      ELSE acceptedIds
    /\ mutex' = [mutex EXCEPT !.writer = 0]
    /\ UNCHANGED <<now, cm, lastTick, ipLimits, ipRequestCount, ipLastRequest,
                   handedOut, nextId, verifiedIds>>

(***************************************************************************)
(* Spec: two request goroutines, at most MaxRequests requests.             *)
(***************************************************************************)
Kinds == {"root", "get", "verify"}
Verdicts == {"verified", "rejected", "error"}

Quiet == UNCHANGED <<started, last, params, admittedAt, config, mainPc, persisted, cmMu>>
Same == UNCHANGED <<started, params, admittedAt, config, mainPc, persisted, cmMu>>

Arrival(p, kind, ip, budget) ==
    /\ started < budget
    /\ started' = started + 1
    /\ RateLimitStep(p, kind, ip)
    /\ UNCHANGED <<params, admittedAt, config, mainPc, persisted, cmMu>>

Next ==
    \/ Tick(MaxTime) /\ Quiet
    \/ NewChallengeManager /\ Quiet
    \/ cleanupLoop /\ Quiet
    \/ \E p \in Procs, kind \in Kinds, ip \in IPs : Arrival(p, kind, ip, MaxRequests) /\ UNCHANGED last
    \/ \E p \in Procs, apiKey \in ApiKeyInputs, origin \in OriginInputs :
          APIKeyStep(p, apiKey, origin) /\ Quiet
    \/ \E p \in Procs : RootRLock(p) /\ Quiet
    \/ \E p \in Procs : RootWrite(p) /\ Quiet
    \/ \E p \in Procs, fma \in BOOLEAN : GetComplexity(p, fma) /\ Quiet
    \/ \E p \in Procs, ok \in BOOLEAN : GetCreate(p, ok) /\ Quiet
    \/ \E p \in Procs : GetIssue(p) /\ Quiet
    \/ \E p \in Procs : \E body \in Bodies(handedOut) : VerifyParse(p, body) /\ Quiet
    \/ \E p \in Procs, v \in Verdicts : VerifyCollab(p, v) /\ Quiet
    \/ \E p \in Procs : VerifyLock(p) /\ Quiet
    \/ \E p \in Procs : VerifyWrite(p) /\ Quiet

Spec == Init /\ [][Next]_vars

(***************************************************************************)
(* SpecSeq: one request at a time (goroutine 1).  `last` keeps what the    *)
(* request carried and the step it reached.  An address may already have   *)
(* used most of its rate window on GET / (handleRoot), which touches no    *)
(* other state.                                                            *)
(***************************************************************************)
PriorRootTraffic ==
    { EmptyMap,
      [x \in {"ip1"} |-> [Count |-> MaxRequestsPerIP - 1, ResetAt |-> RequestLimitWindow]] }

InitSeq == \E limits \in PriorRootTraffic : InitWith(limits, ServerParams)

At(stage) == last' = [last EXCEPT !.stage = stage]

NextSeq ==
    \/ Tick(MaxTime) /\ Quiet
    \/ NewChallengeManager /\ Quiet
    \/ cleanupLoop /\ Quiet
    \/ \E kind \in Kinds, ip \in IPs :
          /\ Arrival(1, kind, ip, MaxSeqRequests)
          /\ last' = [NoLast EXCEPT !.kind = kind, !.ip = ip, !.stage = "limit"]
    \/ \E apiKey \in ApiKeyInputs, origin \in OriginInputs :
          /\ APIKeyStep(1, apiKey, origin)
          /\ last' = [last EXCEPT !.apiKey = apiKey, !.origin = origin, !.stage = "gate"]
          /\ Same
    \/ RootRLock(1) /\ At("rlock") /\ Same
    \/ RootWrite(1) /\ At("root") /\ Same
    \/ \E fma \in BOOLEAN : GetComplexity(1, fma) /\ At("complexity") /\ Same
    \/ \E ok \in BOOLEAN : GetCreate(1, ok) /\ At("create") /\ Same
    \/ GetIssue(1) /\ At("issue") /\ Same
    \/ \E body \in Bodies(handedOut) :
          /\ VerifyParse(1, body)
          /\ last' = [last EXCEPT !.body = body, !.stage = "parse"]
          /\ Same
    \/ \E v \in Verdicts :
          /\ VerifyCollab(1, v)
          /\ last' = [last EXCEPT !.verdict = v, !.stage = "collab"]
          /\ Same
    \/ VerifyLock(1) /\ At("lock") /\ Same
    \/ VerifyWrite(1) /\ At("commit") /\ Same

SpecSeq == InitSeq /\ [][NextSeq]_vars

(***************************************************************************)
(* SpecLimit: one address sends requests for the root page while the       *)
(* clock runs past the end of its window.  last.seen and last.boundary     *)
(* count the requests of the current window the way spec.md describes the  *)
(* window, without looking at the limiter's store.                         *)
(***************************************************************************)
InitLimit == Init

WindowOver == last.seen = 0 \/ now > last.boundary

NextLimit ==
    \/ Tick(MaxLimitTime) /\ Quiet
    \/ /\ WindowOver \/ last.seen < MaxRequestsPerIP + Overshoot
       /\ RateLimitStep(1, "root", "ip1")
       /\ last' = [NoLast EXCEPT
                      !.kind = "root", !.ip = "ip1", !.stage = "limit",
                      !.seen = IF WindowOver THEN 1 ELSE last.seen + 1,
                      !.boundary = IF WindowOver THEN now + RequestLimitWindow
                                   ELSE last.boundary]
       /\ Same
    \/ RootRLock(1) /\ At("rlock") /\ Same
    \/ RootWrite(1) /\ At("root") /\ Same

SpecLimit == InitLimit /\ [][NextLimit]_vars

(***************************************************************************)
(* SpecWindow: LimitByIP called for one address with a small ceiling and a *)
(* short window, so that every way of spreading requests over several      *)
(* windows, idle stretches included, is enumerated.  admittedAt records    *)
(* the minute of every admitted call.                                      *)
(***************************************************************************)
InitWindow ==
    \E l \in 1..MaxLimit, w \in 1..MaxWindow :
        InitWith(EmptyMap, [limit |-> l, window |-> w])

\* utils.go LimitByIP, called as RateLimitMiddleware calls it
LimitCall(ip) ==
    LET r == LimitByIP(ip, params.limit, params.window, ipLimits, now)
    IN  /\ ipLimits' = r.store
        /\ admittedAt' = IF r.allowed THEN [admittedAt EXCEPT ![now] = @ + 1]
                         ELSE admittedAt
        /\ resp' = IF r.allowed THEN NoResp
                   ELSE writeErrorResponse("Rate limit exceeded", 429)
        /\ UNCHANGED <<now, cm, solvedChallenges, lastTick, ipRequestCount,
                       ipLastRequest, stats, mutex, handedOut, nextId, pc, req,
                       started, verifiedIds, acceptedIds, last, params, config,
                       mainPc, persisted, cmMu>>

NextWindow ==
    \/ Tick(MaxWindowTime) /\ Quiet
    \/ LimitCall("ip1")

SpecWindow == InitWindow /\ [][NextWindow]_vars

(***************************************************************************)
(* SpecComplexity: getAdjustedComplexity called once for an address that   *)
(* has already asked for Count challenges, under a configured complexity   *)
(* drawn from 1..MaxBase or the default.  last.count is the count the call *)
(* went by (after the idle reset), last.complexity what it returned.       *)
(***************************************************************************)
MaxBase == 45
MaxCount == 45
MaxIdleTime == 6
MaxComplexityCalls == 1

\* the address's earlier issuance requests, all of them at minute 0 and all
\* counted by the rate limiter as well
PriorIssuance(ip, c) ==
    [limits |-> IF c = 0 THEN EmptyMap
                ELSE [x \in {ip} |-> [Count |-> c, ResetAt |-> RequestLimitWindow]],
     counts |-> IF c = 0 THEN EmptyMap ELSE [x \in {ip} |-> c],
     lastReq |-> IF c = 0 THEN EmptyMap ELSE [x \in {ip} |-> 0]]

InitComplexity ==
    \E B \in (1..MaxBase) \cup {Complexity}, c \in 0..MaxCount :
        LET prior == PriorIssuance("ip1", c)
        IN  InitFrom(prior.limits, ServerParams, [Complexity |-> B],
                     prior.counts, prior.lastReq)

\* server.go getAdjustedComplexity, called as handleGetChallenge calls it
ComplexityCall(ip, fma) ==
    LET c == getAdjustedComplexity(ip, ipRequestCount, ipLastRequest, now,
                                   config.Complexity, fma)
    IN  /\ started < MaxComplexityCalls
        /\ started' = started + 1
        /\ ipRequestCount' = c.counts
        /\ ipLastRequest' = c.lastReq
        /\ last' = [NoLast EXCEPT !.kind = "get", !.ip = ip, !.stage = "complexity",
                                  !.count = c.counts[ip] - 1,
                                  !.complexity = c.complexity]
        /\ UNCHANGED <<now, cm, solvedChallenges, lastTick, ipLimits, stats, mutex,
                       handedOut, nextId, pc, req, resp, verifiedIds, acceptedIds,
                       params, admittedAt, config, mainPc, persisted, cmMu>>

NextComplexity ==
    \/ Tick(MaxIdleTime) /\ Quiet
    \/ \E fma \in BOOLEAN : ComplexityCall("ip1", fma)

SpecComplexity == InitComplexity /\ [][NextComplexity]_vars

(***************************************************************************)
(* SpecShutdown: main's goroutine from the wait for SIGINT/SIGTERM to the  *)
(* end of the process, beside one request goroutine.  mainPc: "serving"    *)
(* (blocked on <-quit), "saving" (inside SaveConfig), "saved", "draining"  *)
(* (inside srv.Shutdown), "exited".                                        *)
(***************************************************************************)
MaxShutdownRequests == 1

MainStep(from, to, saved) ==
    /\ mainPc = from
    /\ mainPc' = to
    /\ persisted' = saved
    /\ UNCHANGED <<now, cm, solvedChallenges, lastTick, ipLimits, ipRequestCount,
                   ipLastRequest, stats, mutex, handedOut, nextId, pc, req, resp,
                   started, verifiedIds, acceptedIds, last, params, admittedAt, config,
                   cmMu>>

\* main.go lines 84-90: the signal arrives and main enters SaveConfig, which
\* takes no lock (part_000 lines 173-188)
Signal == cm /\ MainStep("serving", "saving", persisted)

\* part_000 SaveConfig lines 185-188: v.Set("stats", config.Stats) and
\* v.WriteConfig(), which walks the stats maps; main.go lines 90-92 log an error
\* of the write and go on
SaveConfig(ok) == MainStep("saving", "saved", IF ok THEN "written" ELSE "error")

\* A handler is at the statement that writes s.config.Stats (routes.go lines 128-135,
\* 211-213, 219-221) while SaveConfig walks the same maps without the lock: a data
\* race.  Besides going unnoticed (the SaveConfig and handler steps), the Go
\* runtime may end the process with "fatal error: concurrent map iteration and
\* map write".
SaveRace ==
    /\ \E p \in Procs : pc[p] \in {"issued", "commit"}
    /\ MainStep("saving", "exited", persisted)

\* main.go line 98: srv.Shutdown closes the listeners and waits for the handlers
Shutdown == MainStep("saved", "draining", persisted)

\* main.go lines 98-102: every handler has returned within the 5 seconds
ShutdownDone ==
    /\ \A p \in Procs : pc[p] = "idle"
    /\ MainStep("draining", "exited", persisted)

\* main.go lines 98-100: the context expires first, log.Fatalf
ShutdownTimeout ==
    /\ \E p \in Procs : pc[p] # "idle"
    /\ MainStep("draining", "exited", persisted)

NextShutdown ==
    \/ NewChallengeManager /\ Quiet
    \/ Signal
    \/ \E ok \in BOOLEAN : SaveConfig(ok)
    \/ SaveRace
    \/ Shutdown
    \/ ShutdownDone
    \/ ShutdownTimeout
    \/ \E kind \in {"get", "verify"} :
          /\ mainPc \in {"serving", "saving", "saved"}
          /\ Arrival(1, kind, "ip1", MaxShutdownRequests)
          /\ UNCHANGED last
    \/ \E apiKey \in ApiKeyInputs, origin \in OriginInputs :
          mainPc # "exited" /\ APIKeyStep(1, apiKey, origin) /\ Quiet
    \/ \E fma \in BOOLEAN : mainPc # "exited" /\ GetComplexity(1, fma) /\ Quiet
    \/ \E ok \in BOOLEAN : mainPc # "exited" /\ GetCreate(1, ok) /\ Quiet
    \/ mainPc # "exited" /\ GetIssue(1) /\ Quiet
    \/ \E body \in Bodies(handedOut) : mainPc # "exited" /\ VerifyParse(1, body) /\ Quiet
    \/ \E v \in Verdicts : mainPc # "exited" /\ VerifyCollab(1, v) /\ Quiet
    \/ mainPc # "exited" /\ VerifyLock(1) /\ Quiet
    \/ mainPc # "exited" /\ VerifyWrite(1) /\ Quiet

SpecShutdown == Init /\ [][NextShutdown]_vars

(***************************************************************************)
(* SpecIdle: one request (goroutine 1) from an address that asked for      *)
(* challenges at minute 0, never, 25 times or as often as its rate window  *)
(* allows, while the clock runs past the 5 minutes of the idle reset.      *)
(***************************************************************************)
MaxIdleRequests == 1

PriorCounts == {0, 25, MaxRequestsPerIP}

InitIdle ==
    \E c \in PriorCounts :
        LET prior == PriorIssuance("ip1", c)
        IN  InitFrom(prior.limits, ServerParams, ServerConfig, prior.counts, prior.lastReq)

NextIdle ==
    \/ Tick(MaxIdleTime) /\ Quiet
    \/ NewChallengeManager /\ Quiet
    \/ \E kind \in Kinds :
          /\ Arrival(1, kind, "ip1", MaxIdleRequests)
          /\ last' = [NoLast EXCEPT !.kind = kind, !.ip = "ip1", !.stage = "limit"]
    \/ \E apiKey \in ApiKeyInputs, origin \in OriginInputs :
          /\ APIKeyStep(1, apiKey, origin)
          /\ last' = [last EXCEPT !.apiKey = apiKey, !.origin = origin, !.stage = "gate"]
          /\ Same
    \/ RootRLock(1) /\ At("rlock") /\ Same
    \/ RootWrite(1) /\ At("root") /\ Same
    \/ \E fma \in BOOLEAN : GetComplexity(1, fma) /\ At("complexity") /\ Same
    \/ \E ok \in BOOLEAN : GetCreate(1, ok) /\ At("create") /\ Same
    \/ GetIssue(1) /\ At("issue") /\ Same
    \/ \E body \in Bodies(handedOut) :
          /\ VerifyParse(1, body)
          /\ last' = [last EXCEPT !.body = body, !.stage = "parse"]
          /\ Same
    \/ \E v \in Verdicts :
          /\ VerifyCollab(1, v)
          /\ last' = [last EXCEPT !.verdict = v, !.stage = "collab"]
          /\ Same
    \/ VerifyLock(1) /\ At("lock") /\ Same
    \/ VerifyWrite(1) /\ At("commit") /\ Same

SpecIdle == InitIdle /\ [][NextIdle]_vars

(***************************************************************************)
(* SpecSweep: the replay guard under a ticker that delivers every tick on  *)
(* time (the clock does not pass the minute of a due tick before           *)
(* cleanupExpired has run) and requests that take less than the clock's    *)
(* unit.  Requests arrive until MaxTime; the clock runs one ExpireTime     *)
(* further.  The Go scheduler runs every runnable goroutine, hence the     *)
(* weak fairness of the clock, the ticker and the request goroutine.       *)
(***************************************************************************)
MaxSweepRequests == 2

InitSweep == Init

TickDue == cm /\ now >= lastTick + ExpireTime

SweepClock ==
    /\ ~TickDue
    /\ \A p \in Procs : pc[p] = "idle"
    /\ Tick(MaxTime + ExpireTime)
    /\ Quiet

SweepTicker == cleanupLoop /\ Quiet

SweepArrival ==
    \E kind \in {"get", "verify"} :
        /\ now <= MaxTime
        /\ Arrival(1, kind, "ip1", MaxSweepRequests)
        /\ UNCHANGED last

SweepRequest ==
    \/ \E apiKey \in {KeyA, KeyB} : APIKeyStep(1, apiKey, "https://a.example") /\ Quiet
    \/ \E fma \in BOOLEAN : GetComplexity(1, fma) /\ Quiet
    \/ \E ok \in BOOLEAN : GetCreate(1, ok) /\ Quiet
    \/ GetIssue(1) /\ Quiet
    \/ \E body \in Bodies(handedOut) : VerifyParse(1, body) /\ Quiet
    \/ \E v \in Verdicts : VerifyCollab(1, v) /\ Quiet
    \/ VerifyLock(1) /\ Quiet
    \/ VerifyWrite(1) /\ Quiet

NextSweep ==
    \/ SweepClock
    \/ NewChallengeManager /\ Quiet
    \/ SweepTicker
    \/ SweepArrival
    \/ SweepRequest

SpecSweep ==
    /\ InitSweep /\ [][NextSweep]_vars
    /\ WF_vars(SweepClock) /\ WF_vars(SweepTicker) /\ WF_vars(SweepRequest)

(***************************************************************************)
(* SpecAddresses: requests of two addresses, one at a time, each address   *)
(* new to the rate limiter or one or no request short of the ceiling of    *)
(* its window, while the clock runs past the end of the window.  A        *)
(* request takes less than the clock's unit, a minute.                     *)
(***************************************************************************)
MaxAddressRequests == 2
MaxAddressTime == 11

\* the address's earlier requests for the root page, all of them at minute 0
PriorWindows(ip) ==
    { EmptyMap }
    \cup { [x \in {ip} |-> [Count |-> c, ResetAt |-> RequestLimitWindow]] :
              c \in {MaxRequestsPerIP - 1, MaxRequestsPerIP} }

InitAddresses ==
    \E w1 \in PriorWindows("ip1"), w2 \in PriorWindows("ip2") :
        InitWith([x \in DOMAIN w1 \cup DOMAIN w2 |->
                     IF x \in DOMAIN w1 THEN w1[x] ELSE w2[x]], ServerParams)

NextAddresses ==
    \/ pc[1] = "idle" /\ Tick(MaxAddressTime) /\ Quiet
    \/ \E kind \in {"root", "get"}, ip \in IPs :
          /\ Arrival(1, kind, ip, MaxAddressRequests)
          /\ last' = [NoLast EXCEPT !.kind = kind, !.ip = ip, !.stage = "limit"]
    \/ \E apiKey \in {NoKey, KeyA} :
          /\ APIKeyStep(1, apiKey, "https://a.example")
          /\ last' = [last EXCEPT !.apiKey = apiKey, !.origin = "https://a.example",
                                  !.stage = "gate"]
          /\ Same
    \/ RootRLock(1) /\ At("rlock") /\ Same
    \/ RootWrite(1) /\ At("root") /\ Same
    \/ \E fma \in BOOLEAN : GetComplexity(1, fma) /\ At("complexity") /\ Same
    \/ \E ok \in BOOLEAN : GetCreate(1, ok) /\ At("create") /\ Same
    \/ GetIssue(1) /\ At("issue") /\ Same

SpecAddresses == InitAddresses /\ [][NextAddresses]_vars

(***************************************************************************)
(* SpecLocks: two request goroutines and the sweeper, with the replay      *)
(* guard's own lock cm.mu: cm.Exists, cm.AddChallenge and cleanupExpired   *)
(* each take two steps, the Lock and the body with the deferred Unlock.    *)
(* rl.mutex is taken and released inside RateLimitStep, s.mutex inside     *)
(* APIKeyStep, GetComplexity and GetIssue.  The Go scheduler runs every    *)
(* runnable goroutine: weak fairness of each goroutine's steps.  The       *)
(* server may already have issued a challenge at minute 0.  A request     *)
(* takes less than the clock's unit, a minute, and so does main on its    *)
(* way to NewChallengeManager; a tick of the sweeper may be served at any  *)
(* later moment.                                                           *)
(***************************************************************************)
MaxLockRequests == 2

\* the goroutine of cleanupLoop, as a holder of cm.mu
Sweeper == Cardinality(Procs) + 1

Held == UNCHANGED <<started, last, params, admittedAt, config, mainPc, persisted>>

\* the state after one GET /api/v1/challenge of ip1 under KeyA at minute 0, or none
InitLocks ==
    \E prior \in BOOLEAN :
        IF ~prior THEN Init
        ELSE /\ now = 0
             /\ cm = FALSE
             /\ solvedChallenges = EmptyMap
             /\ lastTick = 0
             /\ ipLimits = LimitByIP("ip1", MaxRequestsPerIP, RequestLimitWindow,
                                     EmptyMap, 0).store
             /\ ipRequestCount = getAdjustedComplexity("ip1", EmptyMap, EmptyMap, 0,
                                                       Complexity, FALSE).counts
             /\ ipLastRequest = getAdjustedComplexity("ip1", EmptyMap, EmptyMap, 0,
                                                      Complexity, FALSE).lastReq
             /\ stats = StatsIssued([k \in DOMAIN APIKeys |-> ZeroStats], KeyA, "ip1")
             /\ mutex = [writer |-> 0, readers |-> {}]
             /\ handedOut = MapPut(EmptyMap, 1, CreateChallenge(1, Complexity, ExpireTime))
             /\ nextId = 2
             /\ pc = [p \in Procs |-> "idle"]
             /\ req = [p \in Procs |-> IdleReq]
             /\ resp = NoResp
             /\ started = 0
             /\ verifiedIds = {}
             /\ acceptedIds = {}
             /\ last = NoLast
             /\ params = ServerParams
             /\ admittedAt = [t \in 0..MaxWindowTime |-> 0]
             /\ config = ServerConfig
             /\ mainPc = "serving"
             /\ persisted = "none"
             /\ cmMu = 0

\* the bodies sent in SpecLocks: one that fails the first payload check, and the
\* well-formed ones the collaborator accepts or rejects
LockBodies(issued) ==
    {b \in Bodies(issued) : b = NoBody \/ (ParsePayload(b).next /\ b.sol # "err")}

\* routes.go handleVerifyChallenge lines 150-192: the payload checks pass and
\* cm.Exists takes cm.mu (challengeManager.go line 35)
ExistsLock(p, body) ==
    /\ pc[p] = "verify"
    /\ body \in Bodies(handedOut)
    /\ ParsePayload(body).next /\ cm
    /\ cmMu = 0
    /\ cmMu' = p
    /\ req' = [req EXCEPT ![p].body = body]
    /\ Goto(p, "exists")
    /\ UNCHANGED <<now, cm, solvedChallenges, lastTick, ipLimits, ipRequestCount,
                   ipLastRequest, stats, mutex, handedOut, nextId, verifiedIds,
                   acceptedIds>>

\* routes.go handleVerifyChallenge lines 150-192: a payload check fails, or cm is
\* nil and cm.mu.Lock() panics; no lock is involved
VerifyReject(p, body) ==
    /\ ~(ParsePayload(body).next /\ cm)
    /\ VerifyParse(p, body)
    /\ UNCHANGED cmMu

\* challengeManager.go Exists lines 36-41 with the deferred Unlock, then
\* routes.go lines 192-195
ExistsUnlock(p) ==
    /\ pc[p] = "exists"
    /\ cmMu = p
    /\ cmMu' = 0
    /\ IF Exists(solvedChallenges, req[p].body.challenge)
       THEN Finish(p, writeErrorResponse("Challenge already solved", 409))
       ELSE /\ Goto(p, "collab")
            /\ req' = [req EXCEPT ![p].resubmit = req[p].body.sol = "good"
                                      /\ req[p].body.challenge \in acceptedIds]
    /\ UNCHANGED <<now, cm, solvedChallenges, lastTick, ipLimits, ipRequestCount,
                   ipLastRequest, stats, mutex, handedOut, nextId, verifiedIds,
                   acceptedIds>>

\* routes.go line 210 under s.mutex: cm.AddChallenge takes cm.mu
\* (challengeManager.go line 29)
AddLock(p) ==
    /\ pc[p] = "commit"
    /\ req[p].verdict = "verified"
    /\ cmMu = 0
    /\ cmMu' = p
    /\ Goto(p, "add")
    /\ UNCHANGED <<now, cm, solvedChallenges, lastTick, ipLimits, ipRequestCount,
                   ipLastRequest, stats, mutex, handedOut, nextId, req, verifiedIds,
                   acceptedIds>>

\* mutant of AddUnlock: cm.mu is not released
AddUnlock_KeepsLock(p) ==
    /\ pc[p] = "add"
    /\ cmMu = p
    /\ cmMu' = cmMu
    /\ solvedChallenges' =
           AddChallenge(solvedChallenges, req[p].body.challenge, req[p].body.expires)
    /\ Goto(p, "added")
    /\ UNCHANGED <<now, cm, lastTick, ipLimits, ipRequestCount, ipLastRequest, stats,
                   mutex, handedOut, nextId, req, verifiedIds, acceptedIds>>

\* challengeManager.go AddChallenge lines 30-31: the entry, the deferred Unlock
AddUnlock(p) ==
    /\ pc[p] = "add"
    /\ cmMu = p
    /\ cmMu' = 0
    /\ solvedChallenges' =
           AddChallenge(solvedChallenges, req[p].body.challenge, req[p].body.expires)
    /\ Goto(p, "added")
    /\ UNCHANGED <<now, cm, lastTick, ipLimits, ipRequestCount, ipLastRequest, stats,
                   mutex, handedOut, nextId, req, verifiedIds, acceptedIds>>

\* routes.go lines 211-228: the stats, the response, the deferred s.mutex.Unlock()
VerifyRespond(p) ==
    /\ pc[p] = "added" \/ (pc[p] = "commit" /\ req[p].verdict # "verified")
    /\ LET c == VerifyCommit(req[p].verdict = "verified", solvedChallenges, stats,
                             req[p].apiKey, req[p].body)
       IN  /\ stats' = c.stats
           /\ Finish(p, c.resp)
    /\ acceptedIds' = IF req[p].verdict = "verified"
                      THEN acceptedIds \cup {req[p].body.challenge}
                      ELSE acceptedIds
    /\ mutex' = [mutex EXCEPT !.writer = 0]
    /\ UNCHANGED <<now, cm, solvedChallenges, lastTick, ipLimits, ipRequestCount,
                   ipLastRequest, handedOut, nextId, verifiedIds, cmMu>>

\* challengeManager.go lines 48-54: a tick arrives and cleanupExpired takes cm.mu
SweepLock ==
    /\ cm
    /\ now >= lastTick + ExpireTime
    /\ cmMu = 0
    /\ cmMu' = Sweeper
    /\ lastTick' = lastTick + ExpireTime
    /\ UNCHANGED <<now, cm, solvedChallenges, ipLimits, ipRequestCount, ipLastRequest,
                   stats, mutex, handedOut, nextId, pc, req, resp, verifiedIds,
                   acceptedIds>>

\* challengeManager.go cleanupExpired lines 55-64, the deferred Unlock
SweepUnlock ==
    /\ cmMu = Sweeper
    /\ cmMu' = 0
    /\ solvedChallenges' = cleanupExpired(solvedChallenges, now)
    /\ UNCHANGED <<now, cm, lastTick, ipLimits, ipRequestCount, ipLastRequest, stats,
                   mutex, handedOut, nextId, pc, req, resp, verifiedIds, acceptedIds>>

\* the steps of request goroutine p once net/http has started it
GoroutineSteps(p) ==
    \/ APIKeyStep(p, KeyA, "https://a.example") /\ Quiet
    \/ RootRLock(p) /\ Quiet
    \/ RootWrite(p) /\ Quiet
    \/ GetComplexity(p, FALSE) /\ Quiet
    \/ \E ok \in BOOLEAN : GetCreate(p, ok) /\ Quiet
    \/ GetIssue(p) /\ Quiet
    \/ \E body \in LockBodies(handedOut) : VerifyReject(p, body) /\ Held
    \/ \E body \in LockBodies(handedOut) : ExistsLock(p, body) /\ Held
    \/ ExistsUnlock(p) /\ Held
    \/ \E v \in Verdicts : VerifyCollab(p, v) /\ Quiet
    \/ VerifyLock(p) /\ Quiet
    \/ AddLock(p) /\ Held
    \/ AddUnlock(p) /\ Held
    \/ VerifyRespond(p) /\ Held

NextLocks ==
    \/ (\A p \in Procs : pc[p] = "idle") /\ Tick(MaxTime) /\ Quiet
    \/ now = 0 /\ NewChallengeManager /\ Quiet
    \/ SweepLock /\ Held
    \/ SweepUnlock /\ Held
    \/ \E p \in Procs, kind \in Kinds :
          Arrival(p, kind, "ip1", MaxLockRequests) /\ UNCHANGED last
    \/ \E p \in Procs : GoroutineSteps(p)

SpecLocks ==
    /\ InitLocks /\ [][NextLocks]_vars
    /\ \A p \in Procs : WF_vars(GoroutineSteps(p))
    /\ WF_vars(SweepUnlock /\ Held)

(***************************************************************************)
(* Properties                                                              *)
(***************************************************************************)
Range(f) == {f[x] : x \in DOMAIN f}
Min(a, b) == IF a <= b THEN a ELSE b

\* C1: of two verification requests that carry the same valid solution and run
\* concurrently, at most one is accepted: a request answered {200, "OK"} finds
\* the challenge absent from the replay guard at the moment it records it.
C1_AtMostOneAccepted ==
    [][\A p \in Procs :
          (pc[p] = "commit" /\ pc'[p] = "idle" /\ req[p].verdict = "verified")
              => ~Exists(solvedChallenges, req[p].body.challenge)]_vars

\* C2: once a payload has been accepted, a later request with the same payload is
\* never accepted a second time, whatever sweeper ticks fall between the two.
C2_NeverAcceptedTwice ==
    [][\A p \in Procs :
          (pc[p] = "commit" /\ pc'[p] = "idle" /\ req[p].resubmit)
              => resp' # VerifyResponse(TRUE)]_vars

\* C3: every entry of the replay guard was put there by a verification request
\* whose solution the collaborator reported verified and that was answered
\* {200, "OK"}; no other request adds an entry.
C3_OnlyVerifiedRecorded ==
    DOMAIN solvedChallenges \subseteq (verifiedIds \cap acceptedIds)

C3_Witness ==
    /\ solvedChallenges # EmptyMap
    /\ last.stage = "commit"
    /\ last.verdict = "verified"

\* C4: for every credential the issued count is at least the solved count plus
\* the failed count.
C4_IssuedCoversOutcomes ==
    \A k \in DOMAIN stats :
        stats[k].TotalChallenges >= stats[k].SolvedChallenges + stats[k].FailedChallenges

\* C5: a step that answers with an error or a rejection (400, 401, 403, 409, 429,
\* 500) leaves the statistics as they were, and the statistics change only in
\* the step that completes an issuance or in the step that records a definite
\* verdict of the collaborator.
C5_StatsOnlyOnOutcome ==
    [][/\ resp'.status \in {400, 401, 403, 409, 429, 500} => stats' = stats
       /\ stats' # stats =>
             \/ last'.stage = "issue" /\ resp'.status = 200
             \/ last'.stage = "commit" /\ last'.verdict \in {"verified", "rejected"}]_vars

C5_Witness ==
    /\ resp = writeErrorResponse("Rate limit exceeded", 429)
    /\ last.stage = "limit"
    /\ \E k \in DOMAIN stats : stats[k].TotalChallenges = 1

\* C6: the k-th request of an address in its current window is admitted exactly
\* when k is at most the ceiling, a rejected request is answered 429 and leaves
\* the count where it was, and the first request after the stored boundary has
\* passed is request number 1 of a new window that ends one window length later.
C6_WindowCeiling ==
    last.stage = "limit" =>
        /\ pc[1] # "idle" <=> last.seen <= MaxRequestsPerIP
        /\ pc[1] = "idle" => resp = writeErrorResponse("Rate limit exceeded", 429)
        /\ ipLimits[last.ip].Count = Min(last.seen, MaxRequestsPerIP)
        /\ ipLimits[last.ip].ResetAt = last.boundary

C6_Witness ==
    /\ last.stage = "limit"
    /\ last.seen = MaxRequestsPerIP + 1
    /\ now > RequestLimitWindow
    /\ resp.status = 429

\* C7: in any time interval no longer than the window, the limiter admits at most
\* twice the ceiling from one address, idle stretches longer than a window
\* included.
RECURSIVE AdmittedIn(_, _)
AdmittedIn(a, b) == IF a > b THEN 0 ELSE admittedAt[a] + AdmittedIn(a + 1, b)

C7_TwiceCeiling ==
    \A a, b \in 0..MaxWindowTime :
        (a <= b /\ b - a <= params.window) => AdmittedIn(a, b) <= 2 * params.limit

C7_Witness ==
    /\ params.limit = MaxLimit
    /\ \E a, b \in 0..MaxWindowTime :
          /\ a <= b /\ b - a <= params.window
          /\ AdmittedIn(a, b) = 2 * params.limit - 1
    /\ \E a \in 0..MaxWindowTime, b \in 0..MaxWindowTime :
          /\ b - a > params.window + 1
          /\ admittedAt[a] > 0 /\ admittedAt[b] > 0
          /\ \A t \in (a + 1)..(b - 1) : admittedAt[t] = 0

\* C8: a request with a registered credential passes the gate exactly when its
\* Origin header is non-empty and equals an entry of the credential's list or
\* the list holds the wildcard; otherwise it is answered 403 (a request without
\* Origin also when the list holds the wildcard).
C8_OriginAdmission ==
    (last.stage = "gate" /\ last.apiKey \in DOMAIN APIKeys) =>
        LET allowed == Range(APIKeys[last.apiKey])
            matches == last.origin # "" /\ (last.origin \in allowed \/ "*" \in allowed)
        IN  /\ pc[1] \in {"get", "verify"} <=> matches
            /\ ~matches => pc[1] = "idle" /\ resp = writeErrorResponse("Invalid origin", 403)

C8_Witness ==
    /\ last.stage = "gate"
    /\ last.apiKey = KeyB
    /\ last.origin = ""
    /\ resp.status = 403

\* C9: the gate checks, in this order, that the token is present, that it has the
\* prefix, that it is registered, and that the origin is allowed; the first
\* three failures are answered 401 whatever the Origin header, the fourth 403;
\* a request that fails the gate does not reach its handler and changes neither
\* the statistics, nor the complexity state, nor the replay guard.
C9_GateOrder ==
    [][(pc[1] = "gate" /\ pc'[1] # "gate") =>
          LET k == last'.apiKey
              o == last'.origin
              registered == k \in DOMAIN APIKeys
              expected ==
                  IF k = NoKey THEN writeErrorResponse("Missing API key", 401)
                  ELSE IF k[1] # "vrty_"
                       THEN writeErrorResponse("Invalid API key format", 401)
                  ELSE IF ~registered THEN writeErrorResponse("Invalid API key", 401)
                  ELSE IF o = "" \/ (o \notin Range(APIKeys[k]) /\ "*" \notin Range(APIKeys[k]))
                       THEN writeErrorResponse("Invalid origin", 403)
                  ELSE NoResp
          IN  /\ resp' = expected
              /\ expected # NoResp =>
                    /\ pc'[1] = "idle"
                    /\ UNCHANGED <<stats, ipRequestCount, ipLastRequest, solvedChallenges>>
              /\ expected = NoResp => pc'[1] = last'.kind]_vars

C9_Witness ==
    /\ last.stage = "gate"
    /\ last.apiKey = <<"vrty_", "zz">>
    /\ last.origin = ""
    /\ resp = writeErrorResponse("Invalid API key", 401)
    /\ pc[1] = "idle"

\* C10: a finished verification request has the HTTP status of its outcome: 200
\* for a verified solution, 400 for a malformed payload or a failed verification,
\* 409 for a replay, 500 for an error of the collaborator.  (The payload without
\* a salt is left out of the malformed case here.)
Malformed(body) ==
    ~(body.b64 /\ body.json /\ body.hasChallenge /\ body.hasQuery /\ body.expiresInt
      /\ body.expires >= 1)

C10_StatusByOutcome ==
    [][(pc[1] \in {"verify", "collab", "commit"} /\ pc'[1] = "idle" /\ cm
            /\ last'.body.hasSalt) =>
          /\ (last'.stage = "parse" /\ Malformed(last'.body)) => resp'.status = 400
          /\ (last'.stage = "parse" /\ ~Malformed(last'.body)) => resp'.status = 409
          /\ last'.stage = "collab" => resp'.status = 500
          /\ (last'.stage = "commit" /\ last'.verdict = "verified") => resp'.status = 200
          /\ (last'.stage = "commit" /\ last'.verdict = "rejected") => resp'.status = 400]_vars

\* C11: every error response (status 400, 401, 403, 409, 429 or 500) carries a
\* {code, message} body whose code equals the HTTP status of the response.
C11_CodeMatchesStatus ==
    resp.status \in {400, 401, 403, 409, 429, 500} => resp.code = resp.status

\* C13: a sweep tick never removes an entry of the replay guard whose expiry
\* instant (the `expires` of the challenge as issued, Unix seconds) has not yet
\* passed, and it removes every entry whose expiry instant has passed.
C13_SweepKeepsUnexpired ==
    [][\A c \in DOMAIN solvedChallenges :
          /\ c \notin DOMAIN solvedChallenges' => solvedChallenges[c] < UnixSeconds(now)
          /\ (lastTick' # lastTick /\ cm /\ solvedChallenges[c] < UnixSeconds(now))
                 => c \notin DOMAIN solvedChallenges']_vars

\* C14: no goroutine holds s.mutex, in either mode, at a point where it calls the
\* PoW collaborator (CreateChallenge, VerifySolution) or writes its response.
C14_NoLockAcrossCalls ==
    \A p \in Procs :
        pc[p] \in {"create", "collab", "root_write", "commit"}
            => mutex.writer # p /\ p \notin mutex.readers

\* C19: a verification body that fails a payload check (not base64, not JSON,
\* challenge or salt absent or not a string, salt without a query part, expires
\* missing, not an integer or below 1) is answered 400, before the replay lookup
\* and the collaborator call, and changes nothing else.
PayloadError(body) ==
    ~(body.b64 /\ body.json /\ body.hasChallenge /\ body.hasSalt /\ body.hasQuery
      /\ body.expiresInt /\ body.expires >= 1)

C19_PayloadErrorIs400 ==
    [][(pc[1] = "verify" /\ pc'[1] # "verify" /\ PayloadError(last'.body)) =>
          /\ resp'.status = 400
          /\ pc'[1] = "idle"
          /\ UNCHANGED <<solvedChallenges, stats, ipRequestCount, ipLastRequest,
                         verifiedIds>>]_vars

\* C20: an issuance for which the collaborator constructs the challenge adds
\* exactly 1 to the credential's issued counter and exactly 1 to that
\* credential's counter of the client address, and changes no other credential,
\* no other address entry and no solved or failed counter; when the collaborator
\* fails, the response is a 500 and no counter changes.
C20_IssuanceFrame ==
    [][/\ (pc[1] = "issued" /\ pc'[1] = "idle") =>
             LET k == req[1].apiKey
                 ip == req[1].ip
                 old == stats[k].IPThrottleCount
                 new == stats'[k].IPThrottleCount
             IN  /\ resp'.status = 200
                 /\ stats'[k].TotalChallenges = stats[k].TotalChallenges + 1
                 /\ stats'[k].SolvedChallenges = stats[k].SolvedChallenges
                 /\ stats'[k].FailedChallenges = stats[k].FailedChallenges
                 /\ DOMAIN new = DOMAIN old \cup {ip}
                 /\ new[ip] = (IF ip \in DOMAIN old THEN old[ip] ELSE 0) + 1
                 /\ \A a \in DOMAIN old \ {ip} : new[a] = old[a]
                 /\ \A j \in DOMAIN stats \ {k} : stats'[j] = stats[j]
                 /\ DOMAIN stats' = DOMAIN stats
       /\ (pc[1] = "create" /\ pc'[1] = "idle") =>
             /\ resp'.status = 500
             /\ stats' = stats
       /\ (pc[1] = "create" /\ pc'[1] = "issued") => stats' = stats]_vars

C20_Witness ==
    /\ last.stage = "issue"
    /\ last.apiKey = KeyB
    /\ last.ip = "ip2"
    /\ stats[KeyB].TotalChallenges = 1
    /\ stats[KeyB].IPThrottleCount = [a \in {"ip2"} |-> 1]
    /\ stats[KeyA] = ZeroStats

\* C12: getAdjustedComplexity returns the base complexity B when the count c it
\* goes by is at most 10, and B * (10 + c \div 10) \div 10 when c is above 10.
C12_ScaledByTenths ==
    last.stage = "complexity" /\ last.count > 0 =>
        last.complexity = IF last.count <= 10 THEN config.Complexity
                          ELSE (config.Complexity * (10 + (last.count \div 10))) \div 10

\* The rest of C12: c = 25 gives B * 12 \div 10, and the result is never below B.
C12_TwelveTenthsAt25 ==
    last.stage = "complexity" =>
        /\ last.complexity >= config.Complexity
        /\ last.count = 25 => last.complexity = (config.Complexity * 12) \div 10
\* C15: every read and every write of the stats map happens under s.mutex, so no
\* handler writes a stats counter while the shutdown save reads the stats.
C15_NoWriteDuringSave ==
    [][stats' # stats => mainPc # "saving"]_vars

\* C16: once the shutdown signal has been received, the process does not exit
\* before SaveConfig has run to its end, on whichever path it exits.
C16_SavedBeforeExit ==
    mainPc = "exited" => persisted \in {"written", "error"}
\* C17: the step of an issuance request that reaches the complexity controller
\* sets the address's recent count to (0 if it was last seen more than 5 minutes
\* ago, else its previous count) + 1 and its last-seen time to now, leaves the
\* other addresses alone, and after an idle reset hands out the base complexity;
\* no other step (verification, rate-limited or rejected requests included)
\* changes any recent count or last-seen time.
C17_ControllerUpdate ==
    [][IF pc[1] = "get" /\ pc'[1] # "get"
       THEN LET ip == req[1].ip
                idle == ip \in DOMAIN ipLastRequest /\ now - ipLastRequest[ip] > 5
                prev == IF ip \in DOMAIN ipRequestCount THEN ipRequestCount[ip] ELSE 0
            IN  /\ DOMAIN ipRequestCount' = DOMAIN ipRequestCount \cup {ip}
                /\ DOMAIN ipLastRequest' = DOMAIN ipLastRequest \cup {ip}
                /\ ipRequestCount'[ip] = (IF idle THEN 0 ELSE prev) + 1
                /\ ipLastRequest'[ip] = now
                /\ \A x \in DOMAIN ipRequestCount \ {ip} :
                      ipRequestCount'[x] = ipRequestCount[x]
                /\ \A x \in DOMAIN ipLastRequest \ {ip} :
                      ipLastRequest'[x] = ipLastRequest[x]
                /\ idle => req'[1].maxNumber = config.Complexity
       ELSE UNCHANGED <<ipRequestCount, ipLastRequest>>]_vars

\* an address that had asked 25 times comes back after more than 5 minutes
C17_Witness ==
    /\ last.stage = "complexity"
    /\ ipLimits["ip1"].Count = 26
    /\ ipLastRequest["ip1"] > 5
    /\ ipRequestCount["ip1"] = 1
    /\ req[1].maxNumber = config.Complexity
\* C18: with the ticker firing every ExpireTime, every entry of the replay guard
\* is eventually removed; a tick leaves no entry behind whose expiry instant has
\* passed; and an entry is in the map no later than 2 * ExpireTime after its
\* challenge was issued (its expiry instant is ExpireTime after the issuance).
C18_SweptByNextTick ==
    /\ \A c \in 1..MaxChallenges :
          (c \in DOMAIN solvedChallenges) ~> (c \notin DOMAIN solvedChallenges)
    /\ [][lastTick' # lastTick /\ cm =>
             \A c \in DOMAIN solvedChallenges' :
                 ~(solvedChallenges'[c] < UnixSeconds(now))]_vars
    /\ [](\A c \in DOMAIN solvedChallenges :
             UnixSeconds(now) <= solvedChallenges[c] + UnixSeconds(ExpireTime))

\* a solved challenge was recorded, and a later tick has emptied the map
C18_Witness ==
    /\ acceptedIds # {}
    /\ cm /\ lastTick > 0
    /\ solvedChallenges = EmptyMap
\* C21: a request the rate limiter rejects (429) ends there and changes nothing:
\* the rate store, the stats, the complexity controller's maps and the replay
\* guard are as before.  A request it admits leaves every other address's entry
\* alone and sets its own address's count to the count of the current window
\* (0 for a new address or a window that has run out) plus exactly 1.
C21_RejectedChangesNothing ==
    [][pc[1] = "idle" /\ last'.stage = "limit" /\ started' # started =>
          LET ip == last'.ip
              fresh == ip \notin DOMAIN ipLimits \/ now > ipLimits[ip].ResetAt
          IN  /\ UNCHANGED <<stats, ipRequestCount, ipLastRequest, solvedChallenges,
                             handedOut, mutex>>
              /\ IF resp'.status = 429
                 THEN pc'[1] = "idle" /\ ipLimits' = ipLimits
                 ELSE /\ pc'[1] \in {"root", "gate"}
                      /\ DOMAIN ipLimits' = DOMAIN ipLimits \cup {ip}
                      /\ ipLimits'[ip].Count = (IF fresh THEN 0 ELSE ipLimits[ip].Count) + 1
                      /\ \A x \in DOMAIN ipLimits \ {ip} : ipLimits'[x] = ipLimits[x]]_vars

\* an address one request short of its ceiling is issued a challenge, and its
\* next request is rejected
C21_Witness ==
    /\ last.stage = "limit"
    /\ resp.status = 429
    /\ started = 2
    /\ last.ip \in DOMAIN ipRequestCount
    /\ stats[KeyA].TotalChallenges = 1
    /\ DOMAIN ipLimits = IPs
    /\ ipLimits[last.ip].Count = MaxRequestsPerIP
\* C22: no step lowers or removes a stats counter: every credential keeps its
\* entry, its issued, solved and failed counters do not decrease, and every
\* per-address issuance count stays and does not decrease.
C22_StatsMonotone ==
    [][\A k \in DOMAIN stats :
          /\ k \in DOMAIN stats'
          /\ stats'[k].TotalChallenges >= stats[k].TotalChallenges
          /\ stats'[k].SolvedChallenges >= stats[k].SolvedChallenges
          /\ stats'[k].FailedChallenges >= stats[k].FailedChallenges
          /\ \A a \in DOMAIN stats[k].IPThrottleCount :
                /\ a \in DOMAIN stats'[k].IPThrottleCount
                /\ stats'[k].IPThrottleCount[a] >= stats[k].IPThrottleCount[a]]_vars

\* a credential with a failed verification on its account is issued a challenge
C22_Witness ==
    /\ last.stage = "issue"
    /\ last.apiKey = KeyB
    /\ stats[KeyB].FailedChallenges = 1
    /\ stats[KeyB].TotalChallenges = 1
\* C23: the replay guard is constructed before any verification request reaches
\* the replay lookup: whenever handleVerifyChallenge gets past the payload checks
\* and calls cm.Exists, cm is set.
C23_ReplayGuardReady ==
    [][(pc[1] = "verify" /\ pc'[1] # "verify" /\ ~PayloadError(last'.body)) => cm]_vars
\* C24: every address known to the rate limiter has a count from 0 to the ceiling;
\* whether a request is admitted follows from its own address's entry alone (no
\* entry, a window that has run out, or a count below the ceiling), and an
\* address's entry is changed by that address's requests only.
C24_AddressesIndependent ==
    /\ [](\A ip \in DOMAIN ipLimits :
             ipLimits[ip].Count >= 0 /\ ipLimits[ip].Count <= MaxRequestsPerIP)
    /\ [][IF pc[1] = "idle" /\ started' # started
          THEN LET ip == last'.ip
               IN  /\ resp'.status # 429 <=>
                         \/ ip \notin DOMAIN ipLimits
                         \/ now > ipLimits[ip].ResetAt
                         \/ ipLimits[ip].Count < MaxRequestsPerIP
                   /\ \A x \in DOMAIN ipLimits \ {ip} :
                         x \in DOMAIN ipLimits' /\ ipLimits'[x] = ipLimits[x]
          ELSE ipLimits' = ipLimits]_vars

\* a request of a new address is admitted while the other address is at its ceiling
C24_Witness ==
    /\ last.stage = "limit"
    /\ last.ip = "ip2"
    /\ pc[1] # "idle"
    /\ ipLimits["ip1"].Count = MaxRequestsPerIP
    /\ now <= ipLimits["ip1"].ResetAt
    /\ ipLimits["ip2"].Count = 1
\* C25: no interleaving of requests and sweep ticks deadlocks.  s.mutex is never
\* taken by a goroutine that holds cm.mu (the only nesting is s.mutex, then
\* cm.mu); a goroutine that has answered holds no lock, whichever way it
\* returned; every request ends with a response; and every request that has
\* been started completes.
C25_NoDeadlock ==
    /\ [][\A p \in Procs :
             (mutex'.writer = p /\ mutex.writer # p)
             \/ (p \in mutex'.readers /\ p \notin mutex.readers)
                 => cmMu # p /\ cmMu' # p]_vars
    /\ [](\A p \in Procs :
             /\ cmMu = p => pc[p] \in {"exists", "add"}
             /\ pc[p] = "idle" => mutex.writer # p /\ p \notin mutex.readers /\ cmMu # p)
    /\ [][\A p \in Procs : pc[p] # "idle" /\ pc'[p] = "idle" => resp'.status # 0]_vars
    /\ \A p \in Procs : (pc[p] # "idle") ~> (pc[p] = "idle")

\* a verified request holds s.mutex and waits for cm.mu, which the sweeper
\* holds, while the other goroutine waits for s.mutex
C25_Witness ==
    /\ pc[1] = "commit"
    /\ req[1].verdict = "verified"
    /\ mutex.writer = 1
    /\ cmMu = Sweeper
    /\ pc[2] = "lock"
====
